---- MODULE Spec2Model ----
(***************************************************************************)
(* Model of the Canvas LMS client of the Obsidian plugin:                  *)
(*   src/src/settings.ts  CanvasAPI (constructor, _request, the public     *)
(*                        operations) and the settings tab's onChange      *)
(*                        handlers;                                        *)
(*   src/src/main.ts      MyPlugin.onload / saveSettings, the five fetch   *)
(*                        commands (fetchCanvasData, fetchCanvasUserProfile,*)
(*                        fetchCanvasEvents, fetchCanvasTodoItems,         *)
(*                        fetchCanvasGrades) and                           *)
(*                        insertTextIntoCurrentDocument.                   *)
(* The promise of _request and the promise of the operation that returns   *)
(* it settle in separate steps.                                            *)
(* A JavaScript string is a sequence of one-character strings, so that     *)
(* prefixing, substring search and percent-encoding are computed as the    *)
(* code computes them.                                                     *)
(***************************************************************************)
EXTENDS Integers, Sequences, FiniteSets, TLC

VARIABLES settings, clients, ctorArgs, canvasApi, pendingSaves, failedSaves, calls, network,
          fetches, note

vars == <<settings, clients, ctorArgs, canvasApi, pendingSaves, failedSaves, calls, network,
          fetches, note>>

(***************************************************************************)
(* The records of the model.  Every record is built by one of these        *)
(* constructors, which list the fields in the order TLC keeps them (the     *)
(* order in which the names first occur in the module).                    *)
(***************************************************************************)
\* a JavaScript value that reaches the client as an argument
JsValue(tag, num, str, items) == [tag |-> tag, num |-> num, str |-> str, items |-> items]

\* an entry of Object.entries(params)
Param(key, value) == [key |-> key, value |-> value]

\* the arguments of _request (data is never passed)
Req(endpoint, method, params) == [endpoint |-> endpoint, method |-> method, params |-> params]

\* MyPluginSettings
Settings(canvasApiUrl, canvasApiToken, useProxy, corsProxyUrl) ==
    [canvasApiUrl |-> canvasApiUrl, canvasApiToken |-> canvasApiToken,
     useProxy |-> useProxy, corsProxyUrl |-> corsProxyUrl]

\* the private fields of a CanvasAPI instance
Client(apiUrl, accessToken, useProxy, corsProxyUrl) ==
    [useProxy |-> useProxy, corsProxyUrl |-> corsProxyUrl,
     apiUrl |-> apiUrl, accessToken |-> accessToken]

\* the headers of a request
HeaderFields(Authorization, ContentType) ==
    [Authorization |-> Authorization, ContentType |-> ContentType]

\* an Error object
ErrorObject(name, message) == [name |-> name, message |-> message]

\* what requestUrl delivers: nothing yet, a response, or a rejection
Arrival(kind, status, text, json, error) ==
    [kind |-> kind, status |-> status, text |-> text, json |-> json, error |-> error]

\* a promise: pending, resolved with a value or rejected with an error
Promise(state, value, error) == [value |-> value, error |-> error, state |-> state]

\* the arguments of a public operation
Args(enrollmentType, enrollmentState, courseId) ==
    [enrollmentType |-> enrollmentType, enrollmentState |-> enrollmentState,
     courseId |-> courseId]

\* a call of requestUrl, with the values `endpoint` and `url` went through
SentRequest(call, slashed, path, target, url, method, headers, body) ==
    [method |-> method, call |-> call, slashed |-> slashed, path |-> path,
     target |-> target, url |-> url, headers |-> headers, body |-> body]

\* an invocation of a client operation
Call(op, args, rq, client, arrived, inner, outcome) ==
    [op |-> op, args |-> args, rq |-> rq, client |-> client,
     arrived |-> arrived, inner |-> inner, outcome |-> outcome]

\* an invocation of one of the fetch commands: the command, its argument, the
\* await it is suspended at (pc), its locals (courses holds what the first
\* await gave), the calls it has made (issued) and the notices it has shown
Fetch(command, insertIntoNote, pc, courses, index, issued, outputText, notices) ==
    [command |-> command, insertIntoNote |-> insertIntoNote, pc |-> pc, courses |-> courses,
     index |-> index, issued |-> issued, outputText |-> outputText, notices |-> notices]

(***************************************************************************)
(* Bounds of the model.                                                    *)
(***************************************************************************)
MaxCalls == 2
MaxRequestCalls == 1
MaxConfigCalls == 1
MaxEdits == 2
MaxFetches == 2

(***************************************************************************)
(* String literals of the source.                                          *)
(***************************************************************************)
Slash == <<"/">>
ApiPrefix == <<"/", "a", "p", "i", "/", "v", "1">>
UsersSelf == <<"/", "u", "s", "e", "r", "s", "/", "s", "e", "l", "f">>
Courses == <<"/", "c", "o", "u", "r", "s", "e", "s">>
AssignmentsSuffix == <<"/", "a", "s", "s", "i", "g", "n", "m", "e", "n", "t", "s">>
ModulesSuffix == <<"/", "m", "o", "d", "u", "l", "e", "s">>
UpcomingEvents == <<"/", "u", "s", "e", "r", "s", "/", "s", "e", "l", "f", "/", "u", "p", "c", "o", "m", "i", "n", "g", "_", "e", "v", "e", "n", "t", "s">>
Todo == <<"/", "u", "s", "e", "r", "s", "/", "s", "e", "l", "f", "/", "t", "o", "d", "o">>
KeyPerPage == <<"p", "e", "r", "_", "p", "a", "g", "e">>
KeyEnrollmentType == <<"e", "n", "r", "o", "l", "l", "m", "e", "n", "t", "_", "t", "y", "p", "e">>
KeyEnrollmentState == <<"e", "n", "r", "o", "l", "l", "m", "e", "n", "t", "_", "s", "t", "a", "t", "e">>
KeyInclude == <<"i", "n", "c", "l", "u", "d", "e">>
TotalScores == <<"t", "o", "t", "a", "l", "_", "s", "c", "o", "r", "e", "s">>
GradingPeriodScores == <<"c", "u", "r", "r", "e", "n", "t", "_", "g", "r", "a", "d", "i", "n", "g", "_", "p", "e", "r", "i", "o", "d", "_", "s", "c", "o", "r", "e", "s">>
Student == <<"s", "t", "u", "d", "e", "n", "t">>
Active == <<"a", "c", "t", "i", "v", "e">>
FailedPrefix == <<"C", "a", "n", "v", "a", "s", " ", "A", "P", "I", " ", "r", "e", "q", "u", "e", "s", "t", " ", "f", "a", "i", "l", "e", "d", ":", " ">>
FailedSep == <<" ", "-", " ">>
Bearer == <<"B", "e", "a", "r", "e", "r", " ">>
PerPage == 50
ErrorStatus == 400

(***************************************************************************)
(* JavaScript string primitives.                                           *)
(***************************************************************************)
\* String.prototype.startsWith
StartsWith(s, p) == Len(p) <= Len(s) /\ SubSeq(s, 1, Len(p)) = p

\* the positions at which p occurs in s
Occurrences(s, p) ==
    {i \in 1..(Len(s) - Len(p) + 1) : SubSeq(s, i, i + Len(p) - 1) = p}

\* String.prototype.includes
Includes(s, p) == Len(p) = 0 \/ Occurrences(s, p) # {}

\* Array.prototype.join
RECURSIVE Join(_, _)
Join(parts, sep) ==
    IF Len(parts) = 0 THEN <<>>
    ELSE IF Len(parts) = 1 THEN parts[1]
    ELSE parts[1] \o sep \o Join(Tail(parts), sep)

\* the concatenation of a sequence of strings
RECURSIVE ConcatAll(_)
ConcatAll(parts) ==
    IF Len(parts) = 0 THEN <<>>
    ELSE IF Len(parts) = 1 THEN parts[1]
    ELSE LET h == Len(parts) \div 2 IN
         ConcatAll(SubSeq(parts, 1, h)) \o ConcatAll(SubSeq(parts, h + 1, Len(parts)))

DigitChar == <<"0", "1", "2", "3", "4", "5", "6", "7", "8", "9">>

\* String(n) for a non-negative integer n
RECURSIVE NumberToString(_)
NumberToString(n) ==
    IF n < 10 THEN <<DigitChar[n + 1]>>
    ELSE NumberToString(n \div 10) \o <<DigitChar[(n % 10) + 1]>>

(***************************************************************************)
(* JavaScript values: the arguments that reach the client and the decoded   *)
(* bodies it returns.  undefined, null, a number, a string, a boolean, an   *)
(* array of values, an object given by its entries.  The numbers of the     *)
(* model are integers.                                                     *)
(***************************************************************************)
Undef == JsValue("undefined", 0, <<>>, <<>>)
Null == JsValue("null", 0, <<>>, <<>>)
Num(n) == JsValue("number", n, <<>>, <<>>)
Str(s) == JsValue("string", 0, s, <<>>)
Bool(b) == JsValue("boolean", IF b THEN 1 ELSE 0, <<>>, <<>>)
Arr(a) == JsValue("array", 0, <<>>, a)
Object(entries) == JsValue("object", 0, <<>>, entries)

\* String(value); an array joins its elements, null and undefined as ''
RECURSIVE StringOf(_)
StringOf(v) ==
    CASE v.tag = "number" -> IF v.num < 0 THEN <<"-">> \o NumberToString(-v.num)
                             ELSE NumberToString(v.num)
      [] v.tag = "string" -> v.str
      [] v.tag = "boolean" -> IF v.num = 1 THEN <<"t", "r", "u", "e">>
                              ELSE <<"f", "a", "l", "s", "e">>
      [] v.tag = "array" ->
            Join([i \in 1..Len(v.items) |->
                     IF v.items[i].tag \in {"null", "undefined"} THEN <<>>
                     ELSE StringOf(v.items[i])], <<",">>)
      [] v.tag = "object" ->
            <<"[", "o", "b", "j", "e", "c", "t", " ", "O", "b", "j", "e", "c", "t", "]">>
      [] v.tag = "null" -> <<"n", "u", "l", "l">>
      [] OTHER -> <<"u", "n", "d", "e", "f", "i", "n", "e", "d">>

\* the truthiness test of `if (value)`
Truthy(v) ==
    CASE v.tag = "number" -> v.num # 0
      [] v.tag = "string" -> Len(v.str) > 0
      [] v.tag = "boolean" -> v.num = 1
      [] v.tag = "array" -> TRUE
      [] v.tag = "object" -> TRUE
      [] OTHER -> FALSE

(***************************************************************************)
(* Percent-encoding.  The alphabet of the model is Letters, Digits, the    *)
(* marks below and the characters of EscapeOf.                             *)
(***************************************************************************)
Letters == {"a", "b", "c", "d", "e", "f", "g", "h", "i", "j", "k", "l", "m",
            "n", "o", "p", "q", "r", "s", "t", "u", "v", "w", "x", "y", "z",
            "A", "B", "C", "D", "E", "F", "G", "H", "I", "J", "K", "L", "M",
            "N", "O", "P", "Q", "R", "S", "T", "U", "V", "W", "X", "Y", "Z"}
Digits == {"0", "1", "2", "3", "4", "5", "6", "7", "8", "9"}

\* %XX of the characters of the alphabet that are escaped somewhere
EscapeOf(c) ==
    CASE c = "/" -> <<"%", "2", "F">>
      [] c = ":" -> <<"%", "3", "A">>
      [] c = "?" -> <<"%", "3", "F">>
      [] c = "=" -> <<"%", "3", "D">>
      [] c = "&" -> <<"%", "2", "6">>
      [] c = "%" -> <<"%", "2", "5">>
      [] c = "," -> <<"%", "2", "C">>
      [] c = "+" -> <<"%", "2", "B">>
      [] c = " " -> <<"%", "2", "0">>
      [] c = "!" -> <<"%", "2", "1">>
      [] c = "~" -> <<"%", "7", "E">>
      [] c = "'" -> <<"%", "2", "7">>
      [] c = "(" -> <<"%", "2", "8">>
      [] c = ")" -> <<"%", "2", "9">>

\* characters encodeURIComponent leaves alone
UriUnreserved == Letters \cup Digits \cup {"-", "_", ".", "!", "~", "*", "'", "(", ")"}

\* encodeURIComponent, character by character
EncodeURIComponent(s) ==
    ConcatAll([i \in 1..Len(s) |->
                  IF s[i] \in UriUnreserved THEN <<s[i]>> ELSE EscapeOf(s[i])])

\* characters the application/x-www-form-urlencoded serializer leaves alone
FormUnreserved == Letters \cup Digits \cup {"*", "-", ".", "_"}

\* the serializer of URLSearchParams.toString(), character by character
FormEncode(s) ==
    ConcatAll([i \in 1..Len(s) |->
                  IF s[i] \in FormUnreserved THEN <<s[i]>>
                  ELSE IF s[i] = " " THEN <<"+">>
                  ELSE EscapeOf(s[i])])

(***************************************************************************)
(* CanvasAPI: constructor and the request primitive.                       *)
(***************************************************************************)
\* every trailing slash removed, as replace(/\/+$/, '') would
RECURSIVE StripTrailingSlashes(_)
StripTrailingSlashes(url) ==
    IF Len(url) > 0 /\ url[Len(url)] = "/"
    THEN StripTrailingSlashes(SubSeq(url, 1, Len(url) - 1))
    ELSE url

\* settings.canvasApiUrl.replace(/\/$/, '')
StripTrailingSlash(url) ==
    IF Len(url) > 0 /\ url[Len(url)] = "/" THEN SubSeq(url, 1, Len(url) - 1)
    ELSE url

\* new CanvasAPI(settings)
CanvasAPI(s) ==
    Client(StripTrailingSlash(s.canvasApiUrl), s.canvasApiToken, s.useProxy, s.corsProxyUrl)

\* the slash prepended without the startsWith test
EnsureLeadingSlashAlways(endpoint) == Slash \o endpoint

\* if (!endpoint.startsWith('/')) endpoint = '/' + endpoint
EnsureLeadingSlash(endpoint) ==
    IF ~StartsWith(endpoint, Slash) THEN Slash \o endpoint ELSE endpoint

\* the prefix tested with startsWith instead of includes
EnsureApiPrefixAtStart(endpoint) ==
    IF ~StartsWith(endpoint, ApiPrefix) THEN ApiPrefix \o endpoint ELSE endpoint

\* if (!endpoint.includes('/api/v1')) endpoint = '/api/v1' + endpoint
EnsureApiPrefix(endpoint) ==
    IF ~Includes(endpoint, ApiPrefix) THEN ApiPrefix \o endpoint ELSE endpoint

NormalizeEndpoint(endpoint) == EnsureApiPrefix(EnsureLeadingSlash(endpoint))

\* the largest array index, 2^32 - 2, in digits
MaxArrayIndex == <<"4", "2", "9", "4", "9", "6", "7", "2", "9", "4">>

DigitValue(c) == CHOOSE d \in 0..9 : DigitChar[d + 1] = c

\* a < b as numbers, for digit strings without leading zeros
IndexLess(a, b) ==
    \/ Len(a) < Len(b)
    \/ /\ Len(a) = Len(b)
       /\ \E i \in 1..Len(a) :
             /\ SubSeq(a, 1, i - 1) = SubSeq(b, 1, i - 1)
             /\ DigitValue(a[i]) < DigitValue(b[i])

\* a property key that is an array index: a canonical numeric string <= 2^32 - 2
IsArrayIndex(key) ==
    /\ Len(key) > 0
    /\ \A i \in 1..Len(key) : key[i] \in Digits
    /\ Len(key) = 1 \/ key[1] # "0"
    /\ key = MaxArrayIndex \/ IndexLess(key, MaxArrayIndex)

\* Object.entries(params), params given as its properties in the order they were
\* created: the array-index keys in ascending numeric order, then the other
\* keys in creation order
ObjectEntries(params) ==
    LET idx == {j \in DOMAIN params : IsArrayIndex(params[j].key)}
        rank(j) ==
            IF j \in idx
            THEN 1 + Cardinality({k \in idx : IndexLess(params[k].key, params[j].key)})
            ELSE 1 + Cardinality(idx) + Cardinality({k \in DOMAIN params \ idx : k < j})
    IN [n \in 1..Len(params) |-> params[CHOOSE j \in DOMAIN params : rank(j) = n]]

\* an array value appended once per item, under the same key
EntryStringRepeated(p) ==
    IF p.value.tag = "array"
    THEN Join([i \in 1..Len(p.value.items) |->
                  FormEncode(p.key) \o <<"=">> \o FormEncode(StringOf(p.value.items[i]))], <<"&">>)
    ELSE FormEncode(p.key) \o <<"=">> \o FormEncode(StringOf(p.value))

\* queryParams.append(key, String(value)), as toString() serializes the pair
EntryString(p) == FormEncode(p.key) \o <<"=">> \o FormEncode(StringOf(p.value))

\* new URLSearchParams(), an append for each entry, queryParams.toString()
QueryString(params) ==
    LET entries == ObjectEntries(params) IN
    Join([i \in 1..Len(entries) |-> EntryString(entries[i])], <<"&">>)

\* url = apiUrl + endpoint, then '?' + query when params has keys
TargetUrl(api, endpoint, params) ==
    api.apiUrl \o NormalizeEndpoint(endpoint)
    \o (IF Len(params) > 0 THEN <<"?">> \o QueryString(params) ELSE <<>>)

\* the proxy URL prepended to the target URL as it is
ProxyWrapRaw(api, url) ==
    IF api.useProxy /\ Len(api.corsProxyUrl) > 0 THEN api.corsProxyUrl \o url ELSE url

\* if (this.useProxy && this.corsProxyUrl) url = corsProxyUrl + encodeURIComponent(url)
ProxyWrap(api, url) ==
    IF api.useProxy /\ Len(api.corsProxyUrl) > 0
    THEN api.corsProxyUrl \o EncodeURIComponent(url)
    ELSE url

RequestUrl(api, endpoint, params) == ProxyWrap(api, TargetUrl(api, endpoint, params))

\* the headers record
Headers(api) == HeaderFields(Bearer \o api.accessToken, "application/json")

(***************************************************************************)
(* The public operations: the endpoint, method and params each hands to    *)
(* _request.  args is [enrollmentType, enrollmentState, courseId].         *)
(***************************************************************************)
\* getCourses assigning both filters without testing them
GetCoursesParamsUntested(enrollmentType, enrollmentState) ==
    <<Param(KeyPerPage, Num(PerPage)),
      Param(KeyEnrollmentType, enrollmentType),
      Param(KeyEnrollmentState, enrollmentState)>>

\* getCourses: per_page, then the two optional filters
GetCoursesParams(enrollmentType, enrollmentState) ==
    <<Param(KeyPerPage, Num(PerPage))>>
    \o (IF Truthy(enrollmentType) THEN <<Param(KeyEnrollmentType, enrollmentType)>> ELSE <<>>)
    \o (IF Truthy(enrollmentState) THEN <<Param(KeyEnrollmentState, enrollmentState)>> ELSE <<>>)

\* getCourseGrades: the literal params object
GetCourseGradesParams ==
    <<Param(KeyInclude, Arr(<<Str(TotalScores), Str(GradingPeriodScores)>>)),
      Param(KeyEnrollmentType, Str(Student)),
      Param(KeyEnrollmentState, Str(Active)),
      Param(KeyPerPage, Num(PerPage))>>

OpRequest(op, args) ==
    CASE op = "getUserProfile" -> Req(UsersSelf, "GET", <<>>)
      [] op = "testConnection" -> Req(UsersSelf, "GET", <<>>)
      [] op = "getCourses" ->
            Req(Courses, "GET", GetCoursesParams(args.enrollmentType, args.enrollmentState))
      [] op = "getCourseAssignments" ->
            Req(Courses \o Slash \o StringOf(args.courseId) \o AssignmentsSuffix, "GET",
                <<Param(KeyPerPage, Num(PerPage))>>)
      [] op = "getCourseModules" ->
            Req(Courses \o Slash \o StringOf(args.courseId) \o ModulesSuffix, "GET",
                <<Param(KeyPerPage, Num(PerPage))>>)
      [] op = "getUpcomingEvents" -> Req(UpcomingEvents, "GET", <<>>)
      [] op = "getTodoItems" -> Req(Todo, "GET", <<>>)
      [] op = "getCourseGrades" -> Req(Courses, "GET", GetCourseGradesParams)

(***************************************************************************)
(* Settlement of a request: the response (or the transport failure) that   *)
(* requestUrl delivers, and what _request and the operation make of it.    *)
(***************************************************************************)
NoError == ErrorObject("", <<>>)
NoArrival == Arrival("none", 0, <<>>, "undefined", NoError)
Response(status, text, json) == Arrival("response", status, text, json, NoError)
Failure(error) == Arrival("failure", 0, <<>>, "undefined", error)

Pending == Promise("pending", "undefined", NoError)
Resolved(value) == Promise("resolved", value, NoError)
Rejected(error) == Promise("rejected", "undefined", error)

\* new Error(`Canvas API request failed: ${response.status} - ${response.text}`)
NewRequestFailed(resp) ==
    ErrorObject("Error", FailedPrefix \o NumberToString(resp.status) \o FailedSep \o resp.text)

\* a catch block that throws a new error around the one it caught
RethrowWrapped(error) == ErrorObject("Error", FailedPrefix \o error.message)

\* catch (error) { console.error(...); throw error; }
Rethrow(error) == error

\* the status test written as status > 400
HandleResponseAbove(resp) ==
    IF resp.status > ErrorStatus THEN Rejected(Rethrow(NewRequestFailed(resp)))
    ELSE Resolved(resp.json)

\* if (response.status >= 400) throw ...; return response.json
HandleResponse(resp) ==
    IF resp.status >= ErrorStatus THEN Rejected(Rethrow(NewRequestFailed(resp)))
    ELSE Resolved(resp.json)

\* a catch block that logs a transport failure and returns nothing
RequestSettledSwallowing(arrived) ==
    IF arrived.kind = "failure" THEN Resolved("undefined")
    ELSE HandleResponse(arrived)

\* _request after the await: a transport failure lands in the same catch
RequestSettled(arrived) ==
    IF arrived.kind = "failure" THEN Rejected(Rethrow(arrived.error))
    ELSE HandleResponse(arrived)

\* testConnection without its catch
TestConnectionUncaught(inner) ==
    IF inner.state = "resolved" THEN Resolved("true") ELSE inner

\* try { await this.getUserProfile(); return true } catch (error) { return false }
TestConnectionSettled(inner) ==
    IF inner.state = "resolved" THEN Resolved("true") ELSE Resolved("false")

\* what the operation's promise settles to, given _request's
OpSettled(op, inner) ==
    IF op = "testConnection" THEN TestConnectionSettled(inner) ELSE inner

\* await requestUrl({url, method, headers, body, throw: false})
SendRequest(net, rq) == Append(net, rq)

\* the request of call i
RequestOf(net, i) == net[CHOOSE k \in DOMAIN net : net[k].call = i]

\* a catch block that sends the request of call i again
ResendOnFailure(net, i, inner) ==
    IF inner.state = "rejected" THEN Append(net, RequestOf(net, i)) ELSE net

\* the paths of _request after the await call requestUrl no more
NetworkAfterSettle(net, i, inner) == net

(***************************************************************************)
(* Inputs.                                                                 *)
(***************************************************************************)
UrlPlain == <<"h", "t", "t", "p", "s", ":", "/", "/", "c", ".", "i", "o">>
UrlSlash == UrlPlain \o <<"/">>
UrlSlashSlash == UrlPlain \o <<"/", "/">>
ProxyUrl == <<"h", "t", "t", "p", "s", ":", "/", "/", "p", ".", "i", "o", "/">>
TokenA == <<"t", "o", "k">>
TokenB == <<"k", "e", "y">>

\* DEFAULT_SETTINGS, with the short stand-ins for its two URLs
DefaultSettings == Settings(UrlPlain, <<>>, FALSE, ProxyUrl)

NoArgs == Args(Undef, Undef, Undef)
CoursesArgs(t, s) == Args(t, s, Undef)
CourseArgs(id) == Args(Undef, Undef, id)

PublicOps == {"getUserProfile", "getCourses", "getCourseAssignments", "getCourseModules",
              "getUpcomingEvents", "getTodoItems", "getCourseGrades", "testConnection"}

\* the arguments an operation is invoked with, given the sets its parameters range over
ArgsOf(op, filters, ids) ==
    CASE op = "getCourses" -> {CoursesArgs(f[1], f[2]) : f \in filters}
      [] op \in {"getCourseAssignments", "getCourseModules"} -> {CourseArgs(id) : id \in ids}
      [] OTHER -> {NoArgs}

NotFound == <<"N", "o", "t", " ", "F", "o", "u", "n", "d">>
EmptyList == <<"[", "]">>
EmptyObject == <<"{", "}">>

Responses ==
    {Response(200, EmptyList, "[]"), Response(399, EmptyObject, "{}"),
     Response(400, EmptyObject, "{}"), Response(404, NotFound, "undefined")}

TransportErrors ==
    {ErrorObject("TypeError",
                 <<"F", "a", "i", "l", "e", "d", " ", "t", "o", " ", "f", "e", "t", "c", "h">>)}

(***************************************************************************)
(* The state machine.                                                      *)
(*   settings      MyPlugin.settings                                       *)
(*   clients       every CanvasAPI instance constructed so far             *)
(*   ctorArgs      the settings each instance was constructed from         *)
(*   canvasApi     MyPlugin.canvasApi, an index into clients               *)
(*   pendingSaves  saveSettings calls suspended at `await saveData`        *)
(*   failedSaves   saveSettings calls whose saveData rejected               *)
(*   calls         invocations of client operations, settled or not        *)
(*   network       the requests handed to requestUrl, in order             *)
(*   fetches       the invocations of MyPlugin.fetchCanvasData             *)
(*   note          the texts put into the note by editor.replaceRange,     *)
(*                 each with the invocation that put it                    *)
(***************************************************************************)
\* onload: loadSettings, then new CanvasAPI(this.settings)
InitWith(loaded) ==
    /\ settings \in loaded
    /\ clients = <<CanvasAPI(settings)>>
    /\ ctorArgs = <<settings>>
    /\ canvasApi = 1
    /\ pendingSaves = 0
    /\ failedSaves = 0
    /\ calls = <<>>
    /\ network = <<>>
    /\ fetches = <<>>
    /\ note = <<>>

\* _request up to its await, on the plugin's current client
Issue(op, args, rq) ==
    /\ LET api == clients[canvasApi] IN
       network' = SendRequest(network,
                      SentRequest(Len(calls) + 1,
                                  EnsureLeadingSlash(rq.endpoint),
                                  NormalizeEndpoint(rq.endpoint),
                                  TargetUrl(api, rq.endpoint, rq.params),
                                  RequestUrl(api, rq.endpoint, rq.params),
                                  rq.method, Headers(api), "undefined"))
    /\ calls' = Append(calls, Call(op, args, rq, canvasApi, NoArrival, Pending, Pending))

\* _request called from outside fetchCanvasData
Request(op, args, rq, max) ==
    /\ Len(calls) < max
    /\ Issue(op, args, rq)
    /\ UNCHANGED <<settings, clients, ctorArgs, canvasApi, pendingSaves, failedSaves,
                   fetches, note>>

\* a public operation is invoked
Invoke(op, args, max) == Request(op, args, OpRequest(op, args), max)

\* requestUrl settles call i and _request resumes: its promise settles, the
\* promise of the operation that called it stays pending
Settle(i, arrived) ==
    /\ calls[i].inner.state = "pending"
    /\ calls' = [calls EXCEPT ![i].arrived = arrived,
                              ![i].inner = RequestSettled(arrived)]
    /\ network' = NetworkAfterSettle(network, i, RequestSettled(arrived))
    /\ UNCHANGED <<settings, clients, ctorArgs, canvasApi, pendingSaves, failedSaves,
                   fetches, note>>

\* the operation of call i settles, microtasks after _request: its promise
\* adopts the one it returned, testConnection resumes from its await
OperationSettle(i) ==
    /\ calls[i].inner.state # "pending"
    /\ calls[i].outcome.state = "pending"
    /\ calls' = [calls EXCEPT ![i].outcome = OpSettled(calls[i].op, calls[i].inner)]
    /\ UNCHANGED <<settings, clients, ctorArgs, canvasApi, pendingSaves, failedSaves,
                   network, fetches, note>>

Respond(i, resp) == Settle(i, resp)

TransportFail(i, error) == Settle(i, Failure(error))

\* an onChange handler of the settings tab, up to the await in saveSettings
OnChange(field, value) ==
    /\ Len(clients) - 1 + pendingSaves + failedSaves < MaxEdits
    /\ settings' = [settings EXCEPT ![field] = value]
    /\ pendingSaves' = pendingSaves + 1
    /\ UNCHANGED <<clients, ctorArgs, canvasApi, failedSaves, calls, network, fetches, note>>

\* the current instance reconfigured in place instead of replaced
ReconfigureInPlace(cls, cur, s) == [cls EXCEPT ![cur] = CanvasAPI(s)]

\* this.canvasApi = new CanvasAPI(this.settings): the instances after it
SaveSettingsClients(cls, cur, s) == Append(cls, CanvasAPI(s))

\* saveSettings after `await this.saveData(this.settings)`
SaveSettingsResume ==
    /\ pendingSaves > 0
    /\ pendingSaves' = pendingSaves - 1
    /\ clients' = SaveSettingsClients(clients, canvasApi, settings)
    /\ ctorArgs' = Append(ctorArgs, settings)
    /\ canvasApi' = Len(clients')
    /\ UNCHANGED <<settings, failedSaves, calls, network, fetches, note>>

\* saveSettings when `await this.saveData(this.settings)` rejects: the call
\* throws before it constructs a client
SaveDataReject ==
    /\ pendingSaves > 0
    /\ pendingSaves' = pendingSaves - 1
    /\ failedSaves' = failedSaves + 1
    /\ UNCHANGED <<settings, clients, ctorArgs, canvasApi, calls, network, fetches, note>>

(***************************************************************************)
(* The commands of MyPlugin that fetch from Canvas: fetchCanvasData,       *)
(* fetchCanvasUserProfile, fetchCanvasEvents, fetchCanvasTodoItems and     *)
(* fetchCanvasGrades.  outputText and the notices are kept as the sequence *)
(* of the templates appended, each a tuple of its literal parts and its    *)
(* interpolated strings.  The bodies of the model are null, objects and    *)
(* arrays of objects.                                                      *)
(***************************************************************************)
\* the property names read from the decoded bodies, as strings
Key(name) ==
    CASE name = "id" -> <<"i", "d">>
      [] name = "name" -> <<"n", "a", "m", "e">>
      [] name = "due_at" -> <<"d", "u", "e", "_", "a", "t">>
      [] name = "has_submitted_submissions" -> <<"h", "a", "s", "_", "s", "u", "b", "m", "i", "t", "t", "e", "d", "_", "s", "u", "b", "m", "i", "s", "s", "i", "o", "n", "s">>
      [] name = "length" -> <<"l", "e", "n", "g", "t", "h">>
      [] name = "primary_email" -> <<"p", "r", "i", "m", "a", "r", "y", "_", "e", "m", "a", "i", "l">>
      [] name = "email" -> <<"e", "m", "a", "i", "l">>
      [] name = "login_id" -> <<"l", "o", "g", "i", "n", "_", "i", "d">>
      [] name = "title" -> <<"t", "i", "t", "l", "e">>
      [] name = "start_at" -> <<"s", "t", "a", "r", "t", "_", "a", "t">>
      [] name = "context_name" -> <<"c", "o", "n", "t", "e", "x", "t", "_", "n", "a", "m", "e">>
      [] name = "assignment" -> <<"a", "s", "s", "i", "g", "n", "m", "e", "n", "t">>
      [] name = "enrollments" -> <<"e", "n", "r", "o", "l", "l", "m", "e", "n", "t", "s">>
      [] name = "computed_current_grade" -> <<"c", "o", "m", "p", "u", "t", "e", "d", "_", "c", "u", "r", "r", "e", "n", "t", "_", "g", "r", "a", "d", "e">>
      [] name = "computed_current_score" -> <<"c", "o", "m", "p", "u", "t", "e", "d", "_", "c", "u", "r", "r", "e", "n", "t", "_", "s", "c", "o", "r", "e">>

NotAvailable == <<"N", "/", "A">>

DueDate ==
    <<"2", "0", "2", "5", "-", "0", "1", "-", "0", "2">>

\* two elements that serve as courses, assignments, events, todo items and
\* graded courses, and a user profile
FullItem ==
    Object(<<Param(Key("id"), Num(7)),
            Param(Key("name"), Str(<<"M">>)),
            Param(Key("due_at"), Str(DueDate)),
            Param(Key("has_submitted_submissions"), Bool(TRUE)),
            Param(Key("title"), Str(<<"T">>)),
            Param(Key("start_at"), Str(DueDate)),
            Param(Key("context_name"), Str(<<"C">>)),
            Param(Key("assignment"), Object(<<Param(Key("name"), Str(<<"E">>)),
            Param(Key("due_at"), Str(DueDate))>>)),
            Param(Key("enrollments"), Arr(<<Object(<<Param(Key("computed_current_grade"), Str(<<"B">>)),
            Param(Key("computed_current_score"), Num(95))>>)>>))>>)

BareItem ==
    Object(<<Param(Key("id"), Num(9)),
            Param(Key("name"), Str(<<"A">>)),
            Param(Key("due_at"), Str(DueDate)),
            Param(Key("assignment"), Object(<<Param(Key("name"), Str(<<"Q">>))>>))>>)

Profile ==
    Object(<<Param(Key("name"), Str(<<"N">>)),
            Param(Key("id"), Num(3)),
            Param(Key("email"), Str(<<"e">>)),
            Param(Key("login_id"), Str(<<"l">>))>>)

ListBody ==
    <<"[", "{", "\"", "i", "d", "\"", ":", "7", ",", "\"", "n", "a", "m", "e", "\"",
      ":", "\"", "M", "\"", ",", "\"", "d", "u", "e", "_", "a", "t", "\"", ":", "\"",
      "2", "0", "2", "5", "-", "0", "1", "-", "0", "2", "\"", ",", "\"", "h", "a", "s",
      "_", "s", "u", "b", "m", "i", "t", "t", "e", "d", "_", "s", "u", "b", "m", "i",
      "s", "s", "i", "o", "n", "s", "\"", ":", "t", "r", "u", "e", ",", "\"", "t", "i",
      "t", "l", "e", "\"", ":", "\"", "T", "\"", ",", "\"", "s", "t", "a", "r", "t",
      "_", "a", "t", "\"", ":", "\"", "2", "0", "2", "5", "-", "0", "1", "-", "0", "2",
      "\"", ",", "\"", "c", "o", "n", "t", "e", "x", "t", "_", "n", "a", "m", "e",
      "\"", ":", "\"", "C", "\"", ",", "\"", "a", "s", "s", "i", "g", "n", "m", "e",
      "n", "t", "\"", ":", "{", "\"", "n", "a", "m", "e", "\"", ":", "\"", "E", "\"",
      ",", "\"", "d", "u", "e", "_", "a", "t", "\"", ":", "\"", "2", "0", "2", "5",
      "-", "0", "1", "-", "0", "2", "\"", "}", ",", "\"", "e", "n", "r", "o", "l", "l",
      "m", "e", "n", "t", "s", "\"", ":", "[", "{", "\"", "c", "o", "m", "p", "u", "t",
      "e", "d", "_", "c", "u", "r", "r", "e", "n", "t", "_", "g", "r", "a", "d", "e",
      "\"", ":", "\"", "B", "\"", ",", "\"", "c", "o", "m", "p", "u", "t", "e", "d",
      "_", "c", "u", "r", "r", "e", "n", "t", "_", "s", "c", "o", "r", "e", "\"", ":",
      "9", "5", "}", "]", "}", ",", "{", "\"", "i", "d", "\"", ":", "9", ",", "\"",
      "n", "a", "m", "e", "\"", ":", "\"", "A", "\"", ",", "\"", "d", "u", "e", "_",
      "a", "t", "\"", ":", "\"", "2", "0", "2", "5", "-", "0", "1", "-", "0", "2",
      "\"", ",", "\"", "a", "s", "s", "i", "g", "n", "m", "e", "n", "t", "\"", ":",
      "{", "\"", "n", "a", "m", "e", "\"", ":", "\"", "Q", "\"", "}", "}", "]">>
ProfileBody ==
    <<"{", "\"", "n", "a", "m", "e", "\"", ":", "\"", "N", "\"", ",", "\"", "i", "d",
      "\"", ":", "3", ",", "\"", "e", "m", "a", "i", "l", "\"", ":", "\"", "e", "\"",
      ",", "\"", "l", "o", "g", "i", "n", "_", "i", "d", "\"", ":", "\"", "l", "\"",
      "}">>
NullBody ==
    <<"n", "u", "l", "l">>

\* a body that is no array and has a length that converts to a number above 0
LengthBody ==
    <<"{", "\"", "l", "e", "n", "g", "t", "h", "\"", ":", "\"", "5", "\"", "}">>

\* response.json, by the name the responses give it
Decoded(json) ==
    CASE json = "[]" -> Arr(<<>>)
      [] json = "{}" -> Object(<<>>)
      [] json = "[7,9]" -> Arr(<<FullItem, BareItem>>)
      [] json = "profile" -> Profile
      [] json = "null" -> Null
      [] json = "length" -> Object(<<Param(Key("length"), Str(<<"5">>))>>)
      [] OTHER -> Undef

\* value[key] of a value that is neither null nor undefined: an own property
\* of an object (the last entry of that key), length and the elements of an
\* array, length and the characters of a string; undefined otherwise
Get(v, key) ==
    CASE v.tag = "object" ->
            LET hits == {j \in DOMAIN v.items : v.items[j].key = key} IN
            IF hits = {} THEN Undef
            ELSE v.items[CHOOSE j \in hits : \A k \in hits : k <= j].value
      [] v.tag = "array" ->
            LET hits == {j \in DOMAIN v.items : NumberToString(j - 1) = key} IN
            IF key = Key("length") THEN Num(Len(v.items))
            ELSE IF hits = {} THEN Undef ELSE v.items[CHOOSE j \in hits : TRUE]
      [] v.tag = "string" ->
            LET hits == {j \in DOMAIN v.str : NumberToString(j - 1) = key} IN
            IF key = Key("length") THEN Num(Len(v.str))
            ELSE IF hits = {} THEN Undef ELSE Str(<<v.str[CHOOSE j \in hits : TRUE]>>)
      [] v.tag \in {"number", "boolean"} -> Undef

\* value.length
LengthOf(v) == Get(v, Key("length"))

\* whether the decimal literal mantissa e exponent is a number above 0, the
\* exponent with its sign (both empty when the literal has none): it is
\* unless it has no digit but 0 or rounds to 0, being at most 2^-1075
DecimalAboveZero(mantissa, exponent) ==
    LET \* the digits of 2^-1075, half of the least positive double, after
        \* its leading zeros: 2^-1075 = 0.<these digits> * 10^-323
        HalfLeast ==
        <<"2", "4", "7", "0", "3", "2", "8", "2", "2", "9", "2", "0", "6", "2",
          "3", "2", "7", "2", "0", "8", "8", "2", "8", "4", "3", "9", "6", "4",
          "3", "4", "1", "1", "0", "6", "8", "6", "1", "8", "2", "5", "2", "9",
          "9", "0", "1", "3", "0", "7", "1", "6", "2", "3", "8", "2", "2", "1",
          "2", "7", "9", "2", "8", "4", "1", "2", "5", "0", "3", "3", "7", "7",
          "5", "3", "6", "3", "5", "1", "0", "4", "3", "7", "5", "9", "3", "2",
          "6", "4", "9", "9", "1", "8", "1", "8", "0", "8", "1", "7", "9", "9",
          "6", "1", "8", "9", "8", "9", "8", "2", "8", "2", "3", "4", "7", "7",
          "2", "2", "8", "5", "8", "8", "6", "5", "4", "6", "3", "3", "2", "8",
          "3", "5", "5", "1", "7", "7", "9", "6", "9", "8", "9", "8", "1", "9",
          "9", "3", "8", "7", "3", "9", "8", "0", "0", "5", "3", "9", "0", "9",
          "3", "9", "0", "6", "3", "1", "5", "0", "3", "5", "6", "5", "9", "5",
          "1", "5", "5", "7", "0", "2", "2", "6", "3", "9", "2", "2", "9", "0",
          "8", "5", "8", "3", "9", "2", "4", "4", "9", "1", "0", "5", "1", "8",
          "4", "4", "3", "5", "9", "3", "1", "8", "0", "2", "8", "4", "9", "9",
          "3", "6", "5", "3", "6", "1", "5", "2", "5", "0", "0", "3", "1", "9",
          "3", "7", "0", "4", "5", "7", "6", "7", "8", "2", "4", "9", "2", "1",
          "9", "3", "6", "5", "6", "2", "3", "6", "6", "9", "8", "6", "3", "6",
          "5", "8", "4", "8", "0", "7", "5", "7", "0", "0", "1", "5", "8", "5",
          "7", "6", "9", "2", "6", "9", "9", "0", "3", "7", "0", "6", "3", "1",
          "1", "9", "2", "8", "2", "7", "9", "5", "5", "8", "5", "5", "1", "3",
          "3", "2", "9", "2", "7", "8", "3", "4", "3", "3", "8", "4", "0", "9",
          "3", "5", "1", "9", "7", "8", "0", "1", "5", "5", "3", "1", "2", "4",
          "6", "5", "9", "7", "2", "6", "3", "5", "7", "9", "5", "7", "4", "6",
          "2", "2", "7", "6", "6", "4", "6", "5", "2", "7", "2", "8", "2", "7",
          "2", "2", "0", "0", "5", "6", "3", "7", "4", "0", "0", "6", "4", "8",
          "5", "4", "9", "9", "9", "7", "7", "0", "9", "6", "5", "9", "9", "4",
          "7", "0", "4", "5", "4", "0", "2", "0", "8", "2", "8", "1", "6", "6",
          "2", "2", "6", "2", "3", "7", "8", "5", "7", "3", "9", "3", "4", "5",
          "0", "7", "3", "6", "3", "3", "9", "0", "0", "7", "9", "6", "7", "7",
          "6", "1", "9", "3", "0", "5", "7", "7", "5", "0", "6", "7", "4", "0",
          "1", "7", "6", "3", "2", "4", "6", "7", "3", "6", "0", "0", "9", "6",
          "8", "9", "5", "1", "3", "4", "0", "5", "3", "5", "5", "3", "7", "4",
          "5", "8", "5", "1", "6", "6", "6", "1", "1", "3", "4", "2", "2", "3",
          "7", "6", "6", "6", "7", "8", "6", "0", "4", "1", "6", "2", "1", "5",
          "9", "6", "8", "0", "4", "6", "1", "9", "1", "4", "4", "6", "7", "2",
          "9", "1", "8", "4", "0", "3", "0", "0", "5", "3", "0", "0", "5", "7",
          "5", "3", "0", "8", "4", "9", "0", "4", "8", "7", "6", "5", "3", "9",
          "1", "7", "1", "1", "3", "8", "6", "5", "9", "1", "6", "4", "6", "2",
          "3", "9", "5", "2", "4", "9", "1", "2", "6", "2", "3", "6", "5", "3",
          "8", "8", "1", "8", "7", "9", "6", "3", "6", "2", "3", "9", "3", "7",
          "3", "2", "8", "0", "4", "2", "3", "8", "9", "1", "0", "1", "8", "6",
          "7", "2", "3", "4", "8", "4", "9", "7", "6", "6", "8", "2", "3", "5",
          "0", "8", "9", "8", "6", "3", "3", "8", "8", "5", "8", "7", "9", "2",
          "5", "6", "2", "8", "3", "0", "2", "7", "5", "5", "9", "9", "5", "6",
          "5", "7", "5", "2", "4", "4", "5", "5", "5", "0", "7", "2", "5", "5",
          "1", "8", "9", "3", "1", "3", "6", "9", "0", "8", "3", "6", "2", "5",
          "4", "7", "7", "9", "1", "8", "6", "9", "4", "8", "6", "6", "7", "9",
          "9", "4", "9", "6", "8", "3", "2", "4", "0", "4", "9", "7", "0", "5",
          "8", "2", "1", "0", "2", "8", "5", "1", "3", "1", "8", "5", "4", "5",
          "1", "3", "9", "6", "2", "1", "3", "8", "3", "7", "7", "2", "2", "8",
          "2", "6", "1", "4", "5", "4", "3", "7", "6", "9", "3", "4", "1", "2",
          "5", "3", "2", "0", "9", "8", "5", "9", "1", "3", "2", "7", "6", "6",
          "7", "2", "3", "6", "3", "2", "8", "1", "2", "5">>
        negative == Len(exponent) > 0 /\ exponent[1] = "-"
        expDigits == IF Len(exponent) > 0 /\ exponent[1] \in {"+", "-"} THEN Tail(exponent)
                     ELSE exponent
        expNonzero == {i \in DOMAIN expDigits : expDigits[i] # "0"}
        expShort == IF expNonzero = {} THEN <<>>
                    ELSE SubSeq(expDigits, CHOOSE i \in expNonzero : \A j \in expNonzero : i <= j,
                                Len(expDigits))
        expValue[i \in 0..Len(expShort)] ==
            IF i = 0 THEN 0 ELSE 10 * expValue[i - 1] + DigitValue(expShort[i])
        points == {i \in DOMAIN mantissa : mantissa[i] = "."}
        point == IF points = {} THEN Len(mantissa) + 1 ELSE CHOOSE i \in points : TRUE
        digits == SelectSeq(mantissa, LAMBDA c : c # ".")
        nonzero == {i \in DOMAIN digits : digits[i] # "0"}
        first == CHOOSE i \in nonzero : \A j \in nonzero : i <= j
        significant == SubSeq(digits, first, CHOOSE i \in nonzero : \A j \in nonzero : j <= i)
        \* the value lies in [10^magnitude, 10^(magnitude + 1))
        magnitude == (point - 1) - first
                     + (IF negative THEN -expValue[Len(expShort)] ELSE expValue[Len(expShort)])
    IN
    /\ nonzero # {}
    /\ IF Len(expShort) > 6 THEN ~negative
       ELSE \/ magnitude > -324
            \/ /\ magnitude = -324
               /\ \/ \E i \in 1..Len(significant) :
                        /\ i <= Len(HalfLeast)
                        /\ SubSeq(significant, 1, i - 1) = SubSeq(HalfLeast, 1, i - 1)
                        /\ DigitValue(significant[i]) > DigitValue(HalfLeast[i])
                  \/ /\ Len(significant) > Len(HalfLeast)
                     /\ SubSeq(significant, 1, Len(HalfLeast)) = HalfLeast

\* whether the string s, converted to a number, is above 0: s less the white
\* space and line terminators around it is read as a numeric literal (hexadecimal, octal, binary,
\* Infinity or decimal with an optional sign); blank is 0, anything that is no
\* literal is NaN
StringAboveZero(s) ==
    LET \* the white space and line terminators the conversion strips: TAB, LF,
        \* VT, FF, CR, SP, NBSP, ZWNBSP (U+FEFF), U+1680 and, by their names
        \* since a string of the model cannot hold them, U+2000 to U+200A,
        \* LS (U+2028), PS (U+2029), U+202F, U+205F and U+3000
        WhiteSpace == {"\t", "\n", "", "\f", "\r", " ", " ", "﻿", " ",
                       "U+2000", "U+2001", "U+2002", "U+2003", "U+2004", "U+2005",
                       "U+2006", "U+2007", "U+2008", "U+2009", "U+200A",
                       "U+2028", "U+2029", "U+202F", "U+205F", "U+3000"}
        HexDigits == Digits \cup {"a", "b", "c", "d", "e", "f", "A", "B", "C", "D", "E", "F"}
        kept == {i \in DOMAIN s : s[i] \notin WhiteSpace}
        t == IF kept = {} THEN <<>>
             ELSE SubSeq(s, CHOOSE i \in kept : \A j \in kept : i <= j,
                         CHOOSE i \in kept : \A j \in kept : j <= i)
        RadixDigits == IF Len(t) < 2 THEN {}
                       ELSE CASE t[2] \in {"x", "X"} -> HexDigits
                              [] t[2] \in {"o", "O"} -> {"0", "1", "2", "3", "4", "5", "6", "7"}
                              [] t[2] \in {"b", "B"} -> {"0", "1"}
                              [] OTHER -> {}
        u == IF Len(t) > 0 /\ t[1] = "+" THEN Tail(t) ELSE t
        marks == {i \in DOMAIN u : u[i] \in {"e", "E"}}
        mark == IF marks = {} THEN Len(u) + 1 ELSE CHOOSE i \in marks : \A j \in marks : i <= j
        mantissa == SubSeq(u, 1, mark - 1)
        exponent == SubSeq(u, mark + 1, Len(u))
    IN
    IF RadixDigits # {} /\ t[1] = "0"
    THEN /\ Len(t) > 2
         /\ \A i \in 3..Len(t) : t[i] \in RadixDigits
         /\ \E i \in 3..Len(t) : t[i] # "0"
    ELSE IF u = <<"I", "n", "f", "i", "n", "i", "t", "y">> THEN TRUE
    ELSE /\ \A i \in DOMAIN exponent : exponent[i] \in Digits \/ (i = 1 /\ exponent[i] \in {"+", "-"})
         /\ marks = {} \/ \E i \in DOMAIN exponent : exponent[i] \in Digits
         /\ \A i \in DOMAIN mantissa : mantissa[i] \in Digits \cup {"."}
         /\ Cardinality({i \in DOMAIN mantissa : mantissa[i] = "."}) <= 1
         /\ \E i \in DOMAIN mantissa : mantissa[i] \in Digits
         /\ DecimalAboveZero(mantissa, exponent)

\* value > 0: the value is converted to a number, an array and an object by
\* their strings, null as 0, undefined as NaN
GreaterThanZero(v) ==
    CASE v.tag = "number" -> v.num > 0
      [] v.tag = "boolean" -> v.num = 1
      [] v.tag \in {"null", "undefined"} -> FALSE
      [] OTHER -> StringAboveZero(StringOf(v))

\* value && value.length > 0
HasItems(v) == Truthy(v) /\ GreaterThanZero(LengthOf(v))

\* a || b
Or(a, b) == IF Truthy(a) THEN a ELSE b

\* reading a property of null or undefined is a TypeError
CanRead(v) == v.tag \notin {"null", "undefined"}

TypeErrorReading(v, key) ==
    ErrorObject("TypeError",
                <<"C", "a", "n", "n", "o", "t", " ", "r", "e", "a", "d", " ",
                  "p", "r", "o", "p", "e", "r", "t", "i", "e", "s", " ", "o", "f", " ">>
                \o StringOf(v) \o <<" ", "(", "r", "e", "a", "d", "i", "n", "g", " ", "'">>
                \o key \o <<"'", ")">>)

\* formatDate, the two renderings of the host's locale left uninterpreted.
\* new Date(dateStr) takes a number (and true, as 1) for the milliseconds
\* since 1970 and parses everything else as its string
FormatDate(dateStr) ==
    LET date == IF dateStr.tag \in {"number", "boolean"}
                THEN <<"new Date(milliseconds)", StringOf(Num(dateStr.num))>>
                ELSE <<"new Date(string)", StringOf(dateStr)>> IN
    IF ~Truthy(dateStr) THEN <<"No date">>
    ELSE <<"toLocaleDateString", date, " ", "toLocaleTimeString", date>>

\* fetchCanvasData: the heading and the courses.forEach lines
CoursesText(courses) ==
    <<<<"## Canvas Active Courses\n\n">>>>
    \o [i \in 1..Len(courses.items) |->
           <<"- **", StringOf(Get(courses.items[i], Key("name"))), "** (ID: ",
             StringOf(Get(courses.items[i], Key("id"))), ")\n">>]

AssignmentsHeading(course) ==
    <<"\n### Assignments for ", StringOf(Get(course, Key("name"))), "\n\n">>

\* the row of an assignment; the status mark is written by its name
AssignmentRow(a) ==
    <<"| ", StringOf(Get(a, Key("name"))), " | ", FormatDate(Get(a, Key("due_at"))), " | ",
      IF Truthy(Get(a, Key("has_submitted_submissions"))) THEN "(check mark) Completed"
      ELSE "(hourglass) Pending",
      " |\n">>

\* what one loop iteration appends after its await
AssignmentsText(assignments) ==
    IF HasItems(assignments)
    THEN LET due == SelectSeq(assignments.items, LAMBDA a : Truthy(Get(a, Key("due_at"))))
             completedCount ==
                 Cardinality({i \in DOMAIN due : Truthy(Get(due[i], Key("has_submitted_submissions")))})
             pendingCount == Len(due) - completedCount IN
         <<<<"| Assignment | Due Date | Status |\n">>, <<"| --- | --- | --- |\n">>>>
         \o [i \in 1..Len(due) |-> AssignmentRow(due[i])]
         \o <<<<"\n**Summary:** ", NumberToString(completedCount), " completed, ",
                NumberToString(pendingCount), " pending assignments\n\n">>>>
    ELSE <<<<"No assignments found for this course.\n\n">>>>

\* fetchCanvasUserProfile: outputText
ProfileText(profile) ==
    <<<<"## Canvas User Profile\n\n">>,
      <<"- **Name:** ", StringOf(Get(profile, Key("name"))), "\n">>,
      <<"- **ID:** ", StringOf(Get(profile, Key("id"))), "\n">>,
      <<"- **Email:** ",
        StringOf(Or(Get(profile, Key("primary_email")), Get(profile, Key("email")))), "\n">>,
      <<"- **Login ID:** ", StringOf(Get(profile, Key("login_id"))), "\n\n">>>>

\* fetchCanvasEvents: outputText
EventsText(events) ==
    <<<<"## Canvas Upcoming Events\n\n">>>>
    \o (IF HasItems(events)
        THEN <<<<"| Event | Date | Course |\n">>, <<"| --- | --- | --- |\n">>>>
             \o [i \in 1..Len(events.items) |->
                    <<"| ", StringOf(Get(events.items[i], Key("title"))), " | ",
                      FormatDate(Get(events.items[i], Key("start_at"))), " | ",
                      StringOf(Or(Get(events.items[i], Key("context_name")), Str(NotAvailable))),
                      " |\n">>]
        ELSE <<<<"No upcoming events found.\n">>>>)

\* fetchCanvasTodoItems: outputText
TodoText(todos) ==
    <<<<"## Canvas Todo Items\n\n">>>>
    \o (IF HasItems(todos)
        THEN <<<<"| Assignment | Course | Due Date |\n">>, <<"| --- | --- | --- |\n">>>>
             \o [i \in 1..Len(todos.items) |->
                    <<"| ", StringOf(Get(Get(todos.items[i], Key("assignment")), Key("name"))), " | ",
                      StringOf(Get(todos.items[i], Key("context_name"))), " | ",
                      FormatDate(Get(Get(todos.items[i], Key("assignment")), Key("due_at"))),
                      " |\n">>]
        ELSE <<<<"No todo items found.\n">>>>)

\* the row of a course in fetchCanvasGrades, of a course whose reads throw
\* nothing (ElementThrown)
GradeRow(course) ==
    IF HasItems(Get(course, Key("enrollments")))
    THEN LET enrollment == Get(Get(course, Key("enrollments")), <<"0">>) IN
         <<"| ", StringOf(Get(course, Key("name"))), " | ",
           StringOf(Or(Get(enrollment, Key("computed_current_grade")), Str(NotAvailable))), " | ",
           StringOf(Or(Get(enrollment, Key("computed_current_score")), Str(NotAvailable))), " |\n">>
    ELSE <<"| ", StringOf(Get(course, Key("name"))), " | No grade | No score |\n">>

\* fetchCanvasGrades: outputText
GradesText(courses) ==
    <<<<"## Canvas Course Grades\n\n">>, <<"| Course | Grade | Score |\n">>,
      <<"| --- | --- | --- |\n">>>>
    \o (IF HasItems(courses)
        THEN [i \in 1..Len(courses.items) |-> GradeRow(courses.items[i])]
        ELSE <<<<"No courses with grades found.\n">>>>)

\* the client operation a command awaits first
CommandOp(command) ==
    CASE command = "fetchCanvasData" -> "getCourses"
      [] command = "fetchCanvasUserProfile" -> "getUserProfile"
      [] command = "fetchCanvasEvents" -> "getUpcomingEvents"
      [] command = "fetchCanvasTodoItems" -> "getTodoItems"
      [] command = "fetchCanvasGrades" -> "getCourseGrades"

\* the Notice a command opens with
StartNotice(command) ==
    CASE command = "fetchCanvasData" -> <<"Fetching Canvas courses...">>
      [] command = "fetchCanvasUserProfile" -> <<"Fetching Canvas user profile...">>
      [] command = "fetchCanvasEvents" -> <<"Fetching Canvas upcoming events...">>
      [] command = "fetchCanvasTodoItems" -> <<"Fetching Canvas todo items...">>
      [] command = "fetchCanvasGrades" -> <<"Fetching Canvas course grades...">>

\* the Notice after the text is built; value is what the first await gave
FetchedNotice(command, value) ==
    CASE command = "fetchCanvasData" ->
            <<"Fetched ", StringOf(LengthOf(value)), " courses">>
      [] command = "fetchCanvasUserProfile" ->
            <<"Fetched profile for ", StringOf(Get(value, Key("name")))>>
      [] command = "fetchCanvasEvents" ->
            <<"Fetched ", StringOf(LengthOf(value)), " upcoming events">>
      [] command = "fetchCanvasTodoItems" ->
            <<"Fetched ", StringOf(LengthOf(value)), " todo items">>
      [] command = "fetchCanvasGrades" ->
            <<"Fetched grades for ", StringOf(LengthOf(value)), " courses">>

\* the Notice after an insertion
InsertedNotice(command) ==
    CASE command = "fetchCanvasData" -> <<"Canvas courses data inserted into note">>
      [] command = "fetchCanvasUserProfile" -> <<"Canvas profile data inserted into note">>
      [] command = "fetchCanvasEvents" -> <<"Canvas events data inserted into note">>
      [] command = "fetchCanvasTodoItems" -> <<"Canvas todo items inserted into note">>
      [] command = "fetchCanvasGrades" -> <<"Canvas grades data inserted into note">>

\* the opening of the Notice of the catch block
FailedNotice(command) ==
    CASE command = "fetchCanvasData" -> "Failed to fetch Canvas data: "
      [] command = "fetchCanvasUserProfile" -> "Failed to fetch user profile: "
      [] command = "fetchCanvasEvents" -> "Failed to fetch events: "
      [] command = "fetchCanvasTodoItems" -> "Failed to fetch todo items: "
      [] command = "fetchCanvasGrades" -> "Failed to fetch grades: "

\* the text a one-call command builds from what its await gave
CommandText(command, value) ==
    CASE command = "fetchCanvasUserProfile" -> ProfileText(value)
      [] command = "fetchCanvasEvents" -> EventsText(value)
      [] command = "fetchCanvasTodoItems" -> TodoText(value)
      [] command = "fetchCanvasGrades" -> GradesText(value)

\* the TypeError the callback of forEach throws on an element, NoError when it
\* throws none: the first property read of an element that is null or
\* undefined, todo.assignment.name of an item without an assignment,
\* enrollments[0].computed_current_grade of an enrollment that is null or
\* undefined
ElementThrown(command, pc, item) ==
    CASE pc = "getCourseAssignments" ->
            IF CanRead(item) THEN NoError ELSE TypeErrorReading(item, Key("due_at"))
      [] command = "fetchCanvasData" ->
            IF CanRead(item) THEN NoError ELSE TypeErrorReading(item, Key("name"))
      [] command = "fetchCanvasEvents" ->
            IF CanRead(item) THEN NoError ELSE TypeErrorReading(item, Key("title"))
      [] command = "fetchCanvasTodoItems" ->
            IF ~CanRead(item) THEN TypeErrorReading(item, Key("assignment"))
            ELSE IF ~CanRead(Get(item, Key("assignment")))
            THEN TypeErrorReading(Get(item, Key("assignment")), Key("name"))
            ELSE NoError
      [] command = "fetchCanvasGrades" ->
            IF ~CanRead(item) THEN TypeErrorReading(item, Key("enrollments"))
            ELSE LET enrollments == Get(item, Key("enrollments")) IN
                 IF HasItems(enrollments) /\ ~CanRead(Get(enrollments, <<"0">>))
                 THEN TypeErrorReading(Get(enrollments, <<"0">>), Key("computed_current_grade"))
                 ELSE NoError

\* the first TypeError the code that follows an await throws on the value the
\* await gave, NoError when it throws none: value.forEach of a value that
\* passes `value && value.length > 0` and is no array, the error of the first
\* element whose callback throws, and value.name or value.length of null and
\* undefined
ValueThrown(command, pc, value) ==
    LET variable ==
            CASE pc = "getCourseAssignments" -> <<"a", "s", "s", "i", "g", "n", "m", "e", "n", "t", "s">>
              [] command = "fetchCanvasEvents" -> <<"e", "v", "e", "n", "t", "s">>
              [] command = "fetchCanvasTodoItems" -> <<"t", "o", "d", "o", "s">>
              [] OTHER -> <<"c", "o", "u", "r", "s", "e", "s">>
        notAFunction ==
            ErrorObject("TypeError",
                        variable \o <<".", "f", "o", "r", "E", "a", "c", "h", " ", "i", "s", " ", "n", "o", "t", " ">>
                        \o <<"a", " ", "f", "u", "n", "c", "t", "i", "o", "n">>)
        throwing == IF value.tag # "array" THEN {}
                    ELSE {i \in DOMAIN value.items :
                             ElementThrown(command, pc, value.items[i]) # NoError} IN
    IF command = "fetchCanvasUserProfile"
    THEN IF CanRead(value) THEN NoError ELSE TypeErrorReading(value, Key("name"))
    ELSE IF HasItems(value)
    THEN IF value.tag # "array" THEN notAFunction
         ELSE IF throwing # {}
         THEN ElementThrown(command, pc,
                            value.items[CHOOSE i \in throwing : \A j \in throwing : i <= j])
         ELSE NoError
    ELSE IF pc = "getCourseAssignments" \/ CanRead(value) THEN NoError
    ELSE TypeErrorReading(value, Key("length"))

\* an await that turns a rejection into null
AwaitedOrNull(outcome) ==
    IF outcome.state = "rejected" THEN Resolved("null") ELSE outcome

\* what `await promise` makes of a settled promise: its value, or a throw
Awaited(outcome) == outcome

\* the error the code after an await throws, NoError when it throws none
Thrown(command, pc, outcome) ==
    IF outcome.state = "rejected" THEN outcome.error
    ELSE ValueThrown(command, pc, Decoded(outcome.value))

\* a command up to its first await: the Notice and the call of the client
StartCommand(command, insertIntoNote, args) ==
    /\ Len(fetches) < MaxFetches
    /\ Issue(CommandOp(command), args, OpRequest(CommandOp(command), args))
    /\ fetches' = Append(fetches,
                         Fetch(command, insertIntoNote, CommandOp(command), Undef, 0,
                               <<Len(calls) + 1>>, <<>>, <<StartNotice(command)>>))
    /\ UNCHANGED <<settings, clients, ctorArgs, canvasApi, pendingSaves, failedSaves, note>>

\* fetchCanvasData(insertIntoNote) up to `await this.canvasApi.getCourses(...)`
FetchCanvasData(insertIntoNote) ==
    StartCommand("fetchCanvasData", insertIntoNote, CoursesArgs(Str(Student), Str(Active)))

\* fetchCanvasUserProfile(insertIntoNote) up to its await
FetchCanvasUserProfile(insertIntoNote) ==
    StartCommand("fetchCanvasUserProfile", insertIntoNote, NoArgs)

\* fetchCanvasEvents(insertIntoNote) up to its await
FetchCanvasEvents(insertIntoNote) == StartCommand("fetchCanvasEvents", insertIntoNote, NoArgs)

\* fetchCanvasTodoItems(insertIntoNote) up to its await
FetchCanvasTodoItems(insertIntoNote) ==
    StartCommand("fetchCanvasTodoItems", insertIntoNote, NoArgs)

\* fetchCanvasGrades(insertIntoNote) up to its await
FetchCanvasGrades(insertIntoNote) == StartCommand("fetchCanvasGrades", insertIntoNote, NoArgs)

\* the loop body up to `await this.canvasApi.getCourseAssignments(course.id)`
FetchAssignments(f, p, index) ==
    LET course == p.courses.items[index] IN
    /\ Issue("getCourseAssignments", CourseArgs(Get(course, Key("id"))),
             OpRequest("getCourseAssignments", CourseArgs(Get(course, Key("id")))))
    /\ fetches' = [fetches EXCEPT ![f] =
                      Fetch(p.command, p.insertIntoNote, "getCourseAssignments", p.courses,
                            index, Append(p.issued, Len(calls) + 1),
                            Append(p.outputText, AssignmentsHeading(course)), p.notices)]
    /\ UNCHANGED note

\* insertTextIntoCurrentDocument(text): the note after it, editor telling whether
\* getActiveEditor finds one
InsertTextIntoCurrentDocument(f, text, editor) ==
    IF editor THEN Append(note, <<f, text>>) ELSE note

\* from the Notice after the text is built to the end of the try block
FetchFinish(f, p, editor) ==
    /\ note' = IF p.insertIntoNote THEN InsertTextIntoCurrentDocument(f, p.outputText, editor)
               ELSE note
    /\ fetches' = [fetches EXCEPT ![f] =
                      Fetch(p.command, p.insertIntoNote, "returned", p.courses, p.index,
                            p.issued, p.outputText,
                            p.notices
                            \o <<FetchedNotice(p.command, p.courses)>>
                            \o (IF ~p.insertIntoNote THEN <<>>
                                ELSE IF editor THEN <<InsertedNotice(p.command)>>
                                ELSE <<<<"No active document to insert text into">>>>))]
    /\ UNCHANGED <<calls, network>>

\* catch (error) { console.error(...); new Notice(`Failed to fetch ...`) }
FetchCatch(f, p, error) ==
    /\ fetches' = [fetches EXCEPT ![f] =
                      Fetch(p.command, p.insertIntoNote, "caught", p.courses, p.index,
                            p.issued, p.outputText,
                            Append(p.notices,
                                   <<FailedNotice(p.command),
                                     IF Len(error.message) > 0 THEN error.message
                                     ELSE <<"Unknown error">>>>))]
    /\ UNCHANGED <<calls, network, note>>

\* fetchCanvasData resumes after the call it awaits has settled, and runs to
\* its next await or to its end
FetchResume(f, editor) ==
    LET p == fetches[f]
        outcome == Awaited(calls[p.issued[Len(p.issued)]].outcome) IN
    /\ p.command = "fetchCanvasData"
    /\ p.pc \in {"getCourses", "getCourseAssignments"}
    /\ outcome.state # "pending"
    /\ UNCHANGED <<settings, clients, ctorArgs, canvasApi, pendingSaves, failedSaves>>
    /\ IF Thrown(p.command, p.pc, outcome) # NoError
       THEN FetchCatch(f, p, Thrown(p.command, p.pc, outcome))
       ELSE IF p.pc = "getCourses"
       THEN LET courses == Decoded(outcome.value) IN
            IF HasItems(courses)
            THEN FetchAssignments(f, Fetch(p.command, p.insertIntoNote, p.pc, courses, 0,
                                           p.issued, CoursesText(courses), p.notices), 1)
            ELSE FetchFinish(f, Fetch(p.command, p.insertIntoNote, p.pc, courses, 0,
                                      p.issued, p.outputText, p.notices), editor)
       ELSE LET q == Fetch(p.command, p.insertIntoNote, p.pc, p.courses, p.index, p.issued,
                           p.outputText \o AssignmentsText(Decoded(outcome.value)),
                           p.notices) IN
            IF p.index < Len(p.courses.items) THEN FetchAssignments(f, q, p.index + 1)
            ELSE FetchFinish(f, q, editor)

\* a one-call command resumes after its call has settled and runs to its end
CommandResume(f, editor) ==
    LET p == fetches[f]
        outcome == Awaited(calls[p.issued[Len(p.issued)]].outcome) IN
    /\ p.command # "fetchCanvasData"
    /\ p.pc = CommandOp(p.command)
    /\ outcome.state # "pending"
    /\ UNCHANGED <<settings, clients, ctorArgs, canvasApi, pendingSaves, failedSaves>>
    /\ IF Thrown(p.command, p.pc, outcome) # NoError
       THEN FetchCatch(f, p, Thrown(p.command, p.pc, outcome))
       ELSE FetchFinish(f, Fetch(p.command, p.insertIntoNote, p.pc, Decoded(outcome.value),
                                 0, p.issued,
                                 CommandText(p.command, Decoded(outcome.value)), p.notices),
                        editor)

(***************************************************************************)
(* Spec: operations invoked on one client and settled by the network.      *)
(***************************************************************************)
CallFilters == {<<Str(Student), Str(Active)>>}
CallIds == {Num(7)}

Init == InitWith({Settings(UrlSlash, TokenA, TRUE, ProxyUrl)})

Next ==
    \/ \E op \in PublicOps : \E args \in ArgsOf(op, CallFilters, CallIds) :
          Invoke(op, args, MaxCalls)
    \/ \E i \in DOMAIN calls : \E resp \in Responses : Respond(i, resp)
    \/ \E i \in DOMAIN calls : \E e \in TransportErrors : TransportFail(i, e)
    \/ \E i \in DOMAIN calls : OperationSettle(i)

Spec == Init /\ [][Next]_vars

(***************************************************************************)
(* SpecRequest: the URL a request is sent to, over wide arguments: the     *)
(* request primitive on arbitrary endpoint paths and parameter mappings,   *)
(* and the public operations on arbitrary arguments.                       *)
(***************************************************************************)
RequestSettings ==
    {Settings(u, TokenA, p, x) :
        u \in {UrlPlain, UrlSlash}, p \in BOOLEAN, x \in {<<>>, ProxyUrl}}

Endpoints ==
    {<<>>, <<"/">>, <<"/", "/", "x">>,
     <<"c", "o", "u", "r", "s", "e", "s">>, Courses,
     <<"u", "s", "e", "r", "s", "/", "s", "e", "l", "f">>,
     <<"a", "p", "i", "/", "v", "1", "/", "c", "o", "u", "r", "s", "e", "s">>,
     ApiPrefix \o Courses,
     ApiPrefix \o ApiPrefix \o <<"/", "x">>,
     <<"/", "a", "p", "i", "/", "v", "1", "0", "/", "x">>,
     <<"/", "x", "/", "a", "p", "i", "/", "v", "1">>,
     <<"x", "/", "a", "p", "i", "/", "v", "1">>,
     <<"/", "a", "p", "i", "/", "v">>}

ParamSets ==
    {<<>>,
     <<Param(KeyPerPage, Num(PerPage))>>,
     <<Param(<<"q">>, Str(<<"a", " ", "b", "&", "c">>)), Param(KeyInclude, Arr(<<Str(TotalScores), Str(Student)>>))>>,
     <<Param(<<"q">>, Arr(<<Str(<<"a">>), Str(<<"b">>)>>)), Param(<<"1", "0">>, Num(1)), Param(<<"2">>, Undef)>>,
     <<Param(<<"0", "1">>, Str(<<>>)), Param(<<"0">>, Str(<<"=">>))>>}

WideFilters ==
    {<<t, s>> : t \in {Undef, Str(<<>>), Str(Student)}, s \in {Undef, Str(<<>>), Str(Active)}}
WideIds == {Num(7), Num(120), Str(<<"4", "2">>), Str(<<"1", "/", "a", "p", "i", "/", "v", "1">>)}

NoPrimitiveArgs == NoArgs

\* _request called with an endpoint and params of the caller's choosing
RequestPrimitive(endpoint, params) ==
    Request("_request", NoPrimitiveArgs, Req(endpoint, "GET", params), MaxRequestCalls)

InitRequest == InitWith(RequestSettings)

NextRequest ==
    \/ \E e \in Endpoints : \E params \in ParamSets : RequestPrimitive(e, params)
    \/ \E op \in PublicOps : \E args \in ArgsOf(op, WideFilters, WideIds) :
          Invoke(op, args, MaxRequestCalls)

SpecRequest == InitRequest /\ [][NextRequest]_vars

(***************************************************************************)
(* SpecConfig: the settings tab edits the settings and saveSettings swaps  *)
(* in a new client while operations are in flight.                         *)
(***************************************************************************)
SettingFields == {"canvasApiUrl", "canvasApiToken", "useProxy", "corsProxyUrl"}

\* what the user can put into each control
EditValues(field) ==
    CASE field = "canvasApiUrl" -> {UrlPlain, UrlSlash, UrlSlashSlash}
      [] field = "canvasApiToken" -> {<<>>, TokenA}
      [] field = "useProxy" -> BOOLEAN
      [] field = "corsProxyUrl" -> {<<>>}

ConfigOps == {"testConnection", "getCourseGrades"}
ConfigResponses == {Response(200, EmptyList, "[]")}

InitConfig == InitWith({DefaultSettings})

NextConfig ==
    \/ \E f \in SettingFields : \E v \in EditValues(f) : OnChange(f, v)
    \/ SaveSettingsResume
    \/ SaveDataReject
    \/ \E op \in ConfigOps : Invoke(op, NoArgs, MaxConfigCalls)
    \/ \E i \in DOMAIN calls : \E resp \in ConfigResponses : Respond(i, resp)
    \/ \E i \in DOMAIN calls : OperationSettle(i)

SpecConfig == InitConfig /\ [][NextConfig]_vars

(***************************************************************************)
(* SpecFetch: fetch commands running beside one another against a network  *)
(* that answers each of their calls with any of the responses or fails it. *)
(***************************************************************************)
FetchResponses ==
    {Response(200, ListBody, "[7,9]"), Response(200, ProfileBody, "profile"),
     Response(200, NullBody, "null"), Response(200, LengthBody, "length")}

InitFetch == InitWith({Settings(UrlSlash, TokenA, TRUE, ProxyUrl)})

NextFetch ==
    \/ \E insertIntoNote \in BOOLEAN : FetchCanvasData(insertIntoNote)
    \/ \E insertIntoNote \in BOOLEAN : FetchCanvasUserProfile(insertIntoNote)
    \/ \E insertIntoNote \in BOOLEAN : FetchCanvasEvents(insertIntoNote)
    \/ \E insertIntoNote \in BOOLEAN : FetchCanvasTodoItems(insertIntoNote)
    \/ \E insertIntoNote \in BOOLEAN : FetchCanvasGrades(insertIntoNote)
    \/ \E i \in DOMAIN calls : \E resp \in FetchResponses : Respond(i, resp)
    \/ \E i \in DOMAIN calls : \E e \in TransportErrors : TransportFail(i, e)
    \/ \E i \in DOMAIN calls : OperationSettle(i)
    \/ \E f \in DOMAIN fetches : \E editor \in BOOLEAN : FetchResume(f, editor)
    \/ \E f \in DOMAIN fetches : \E editor \in BOOLEAN : CommandResume(f, editor)

SpecFetch == InitFetch /\ [][NextFetch]_vars

(***************************************************************************)
(* Claims about settled operations, checked under Spec.                    *)
(***************************************************************************)
\* the promise of the operation has settled
Settled(c) == c.outcome.state # "pending"
RequestsOf(i) == {k \in DOMAIN network : network[k].call = i}

\* C1: for every public operation except testConnection and every response,
\* the operation rejects with an error whose message contains the status code
\* and the raw response text when the status is >= 400, and otherwise resolves
\* with the response's decoded JSON body unchanged.
C1_StatusContract ==
    \A i \in DOMAIN calls :
        LET c == calls[i] IN
        (c.op # "testConnection" /\ c.arrived.kind = "response" /\ Settled(c)) =>
            IF c.arrived.status >= 400
            THEN /\ c.outcome.state = "rejected"
                 /\ Includes(c.outcome.error.message, NumberToString(c.arrived.status))
                 /\ Includes(c.outcome.error.message, c.arrived.text)
            ELSE /\ c.outcome.state = "resolved"
                 /\ c.outcome.value = c.arrived.json

\* a 404 "Not Found" has rejected one operation and a 200 has resolved another
C1_Witness ==
    /\ \E i \in DOMAIN calls :
          /\ calls[i].op # "testConnection"
          /\ calls[i].arrived = Response(404, NotFound, "undefined")
          /\ calls[i].outcome.state = "rejected"
    /\ \E i \in DOMAIN calls :
          /\ calls[i].op # "testConnection"
          /\ calls[i].arrived = Response(200, EmptyList, "[]")
          /\ calls[i].outcome = Resolved("[]")

\* C2: testConnection never throws: it resolves to true exactly when the
\* underlying getUserProfile call resolves, and to false when that call rejects
\* (an HTTP status >= 400 or a transport failure).
C2_TestConnectionTotal ==
    \A i \in DOMAIN calls :
        LET c == calls[i] IN
        c.op = "testConnection" =>
            /\ c.outcome.state # "rejected"
            /\ Settled(c) =>
                  /\ c.outcome.state = "resolved"
                  /\ c.outcome.value \in {"true", "false"}
                  /\ c.outcome.value = "true" <=> c.inner.state = "resolved"
                  /\ c.inner.state = "resolved" <=>
                        (c.arrived.kind = "response" /\ c.arrived.status < 400)

\* one testConnection has met a transport failure and answered false, another
\* has met a 200 and answered true
C2_Witness ==
    /\ \E i \in DOMAIN calls :
          /\ calls[i].op = "testConnection"
          /\ calls[i].arrived.kind = "failure"
          /\ calls[i].outcome = Resolved("false")
    /\ \E i \in DOMAIN calls :
          /\ calls[i].op = "testConnection"
          /\ calls[i].arrived.kind = "response"
          /\ calls[i].outcome = Resolved("true")

\* C3: every invocation of a public operation issues exactly one outbound HTTP
\* request, whether it is pending, has succeeded or has failed: nothing is
\* retried.
C3_ExactlyOneRequest ==
    /\ \A i \in DOMAIN calls : Cardinality(RequestsOf(i)) = 1
    /\ Len(network) = Len(calls)

\* a failed operation and a succeeded one, each with its single request
C3_Witness ==
    /\ \E i \in DOMAIN calls :
          calls[i].outcome.state = "rejected" /\ Cardinality(RequestsOf(i)) = 1
    /\ \E i \in DOMAIN calls :
          calls[i].outcome.state = "resolved" /\ Cardinality(RequestsOf(i)) = 1

\* C4: every public operation except testConnection hands its caller the very
\* error raised by the request primitive (RequestFailed) or by the transport.
C4_ErrorUnmodified ==
    \A i \in DOMAIN calls :
        LET c == calls[i] IN
        (c.op # "testConnection" /\ Settled(c)) =>
            /\ c.arrived.kind = "failure" =>
                  c.outcome.state = "rejected" /\ c.outcome.error = c.arrived.error
            /\ (c.arrived.kind = "response" /\ c.arrived.status >= 400) =>
                  c.outcome.state = "rejected"
                  /\ c.outcome.error = NewRequestFailed(c.arrived)

\* a transport failure and a RequestFailed have each reached a caller
C4_Witness ==
    /\ \E i \in DOMAIN calls :
          /\ calls[i].op # "testConnection"
          /\ calls[i].arrived.kind = "failure"
          /\ calls[i].outcome.state = "rejected"
    /\ \E i \in DOMAIN calls :
          /\ calls[i].op # "testConnection"
          /\ calls[i].arrived.kind = "response"
          /\ calls[i].outcome.state = "rejected"

\* what the caller of call i got: "value", "error" or "nothing" (still pending)
Surfaced(c) ==
    CASE c.outcome.state = "resolved" -> "value"
      [] c.outcome.state = "rejected" -> "error"
      [] OTHER -> "nothing"

\* C12 as stated: a public operation other than testConnection returns a value
\* only when the response status is in 200..299, and every other outcome
\* (non-2xx status, transport failure) is a thrown error.
C12_ValueOnlyOn2xx ==
    \A i \in DOMAIN calls :
        LET c == calls[i] IN
        c.op # "testConnection" =>
            /\ Surfaced(c) = "value" =>
                  c.arrived.kind = "response" /\ c.arrived.status \in 200..299
            /\ (Settled(c) /\ ~(c.arrived.kind = "response" /\ c.arrived.status \in 200..299)) =>
                  Surfaced(c) = "error"

\* C12 amended: a public operation other than testConnection returns a value
\* only when a response arrived whose status is below 400 (a 2xx, but a 3xx as
\* well), and every other outcome (a status of 400 or more, a transport
\* failure) is a thrown error.
C12_ValueOnlyBelow400 ==
    \A i \in DOMAIN calls :
        LET c == calls[i] IN
        c.op # "testConnection" =>
            /\ Surfaced(c) = "value" =>
                  c.arrived.kind = "response" /\ c.arrived.status < 400
            /\ (Settled(c) /\ ~(c.arrived.kind = "response" /\ c.arrived.status < 400)) =>
                  Surfaced(c) = "error"
            /\ (Settled(c) /\ c.arrived.kind = "response" /\ c.arrived.status \in 200..299) =>
                  Surfaced(c) = "value"

\* one operation was answered 399 and returned the body, another met a
\* transport failure and threw
C12_Witness ==
    /\ \E i \in DOMAIN calls :
          /\ calls[i].op \notin {"testConnection", "getUserProfile"}
          /\ calls[i].arrived = Response(399, EmptyObject, "{}")
          /\ Surfaced(calls[i]) = "value"
    /\ \E i \in DOMAIN calls :
          /\ calls[i].op # "testConnection"
          /\ calls[i].arrived.kind = "failure"
          /\ Surfaced(calls[i]) = "error"

(***************************************************************************)
(* Claims about the request URL, checked under SpecRequest.                *)
(***************************************************************************)
ApiOf(r) == clients[calls[r.call].client]
EndpointOf(r) == calls[r.call].rq.endpoint
ParamsOf(r) == calls[r.call].rq.params
Sent == {network[k] : k \in DOMAIN network}

\* base + normalizedPath [+ query]
Unwrapped(r) ==
    ApiOf(r).apiUrl \o r.path
    \o (IF Len(ParamsOf(r)) > 0 THEN <<"?">> \o QueryString(ParamsOf(r)) ELSE <<>>)

\* C6 as stated: with proxy mode enabled and proxy URL P, for every P and every
\* request the final URL is P + percentEncode(base + normalizedPath [+ query]).
C6_ProxyEveryP ==
    \A r \in Sent :
        ApiOf(r).useProxy =>
            r.url = ApiOf(r).corsProxyUrl \o EncodeURIComponent(Unwrapped(r))

\* C6 amended: with proxy mode enabled and a non-empty proxy URL P the final URL
\* is P + percentEncode(base + normalizedPath [+ query]); with an empty proxy
\* URL (or proxy mode disabled) the request goes to the unwrapped URL.
C6_ProxyNonEmptyP ==
    \A r \in Sent :
        IF ApiOf(r).useProxy /\ ApiOf(r).corsProxyUrl # <<>>
        THEN r.url = ApiOf(r).corsProxyUrl \o EncodeURIComponent(Unwrapped(r))
        ELSE r.url = Unwrapped(r)

\* a proxied request with a query string, whose URL differs from its target
C6_Witness ==
    \E r \in Sent :
        /\ ApiOf(r).useProxy /\ ApiOf(r).corsProxyUrl = ProxyUrl
        /\ Len(ParamsOf(r)) > 0
        /\ StartsWith(r.url, ProxyUrl)
        /\ r.url # ProxyUrl \o Unwrapped(r)
        /\ ~Includes(SubSeq(r.url, Len(ProxyUrl) + 1, Len(r.url)), <<"/">>)

VersionCount(path) == Cardinality(Occurrences(path, ApiPrefix))

\* what C7 says of one request, short of its last clause
VersionInsertedOnce(r) ==
    /\ ~Includes(r.slashed, ApiPrefix) =>
          r.path = ApiPrefix \o r.slashed /\ VersionCount(r.path) = 1
    /\ Includes(r.slashed, ApiPrefix) => r.path = r.slashed
    /\ NormalizeEndpoint(r.path) = r.path

\* C7 as stated: a path lacking the API-version segment gets it exactly once,
\* an already-versioned path is left unmodified, normalization is idempotent and
\* never yields a path with the version segment twice.
C7_NeverTwice ==
    \A r \in Sent : VersionInsertedOnce(r) /\ VersionCount(r.path) <= 1

\* C7 amended: a path lacking the API-version segment gets it exactly once, an
\* already-versioned path is left unmodified, normalization is idempotent and
\* never adds a second version segment: the result holds the segment twice only
\* when the path it was given already did.
C7_NeverAddsSecond ==
    \A r \in Sent :
        /\ VersionInsertedOnce(r)
        /\ VersionCount(r.path) = (IF VersionCount(r.slashed) = 0 THEN 1
                                   ELSE VersionCount(r.slashed))

\* a request whose endpoint lacked the segment and was sent with exactly one
C7_Witness ==
    \E r \in Sent :
        /\ ~Includes(r.slashed, ApiPrefix)
        /\ StartsWith(r.path, ApiPrefix)
        /\ VersionCount(r.path) = 1
        /\ r.target = ApiOf(r).apiUrl \o r.path

\* the number of '/' a string starts with
RECURSIVE LeadingSlashes(_)
LeadingSlashes(s) ==
    IF Len(s) > 0 /\ s[1] = "/" THEN 1 + LeadingSlashes(Tail(s)) ELSE 0

\* C8: an endpoint path not starting with '/' gets exactly one leading '/'; a
\* path already starting with '/' is not changed by this step.
C8_LeadingSlash ==
    \A r \in Sent :
        LET e == EndpointOf(r) IN
        /\ LeadingSlashes(e) = 0 => r.slashed = <<"/">> \o e /\ LeadingSlashes(r.slashed) = 1
        /\ LeadingSlashes(e) > 0 => r.slashed = e
        /\ r.path = EnsureApiPrefix(r.slashed)

\* a request whose endpoint came without the slash
C8_Witness ==
    \E r \in Sent :
        /\ Len(EndpointOf(r)) > 0
        /\ LeadingSlashes(EndpointOf(r)) = 0
        /\ LeadingSlashes(r.slashed) = 1

HasKey(params, k) == \E j \in DOMAIN params : params[j].key = k
ValuesOf(params, k) == {params[j].value : j \in {x \in DOMAIN params : params[x].key = k}}
Supplied(v) == v.tag # "undefined"
GetCoursesSent == {r \in Sent : calls[r.call].op = "getCourses"}
PerPage50 == <<"p", "e", "r", "_", "p", "a", "g", "e", "=", "5", "0">>

\* what C10 says of per_page and of the two calls it names
GetCoursesPerPage(r) ==
    LET a == calls[r.call].args
        p == ParamsOf(r) IN
    /\ ValuesOf(p, KeyPerPage) = {Num(50)}
    /\ r.target = ApiOf(r).apiUrl \o ApiPrefix \o Courses \o <<"?">> \o QueryString(p)
    /\ StartsWith(QueryString(p), PerPage50)
    /\ (~Supplied(a.enrollmentType) /\ ~Supplied(a.enrollmentState)) =>
          QueryString(p) = PerPage50
    /\ (a.enrollmentType = Str(Student) /\ a.enrollmentState = Str(Active)) =>
          QueryString(p) = PerPage50 \o <<"&">> \o KeyEnrollmentType \o <<"=">> \o Student
                           \o <<"&">> \o KeyEnrollmentState \o <<"=">> \o Active

\* C10 as stated: getCourses always sends per_page=50 and sends enrollment_type
\* (resp. enrollment_state) exactly when the corresponding argument is supplied.
C10_ExactlyWhenSupplied ==
    \A r \in GetCoursesSent :
        LET a == calls[r.call].args IN
        /\ GetCoursesPerPage(r)
        /\ HasKey(ParamsOf(r), KeyEnrollmentType) <=> Supplied(a.enrollmentType)
        /\ HasKey(ParamsOf(r), KeyEnrollmentState) <=> Supplied(a.enrollmentState)

\* C10 amended: getCourses always sends per_page=50 and sends enrollment_type
\* (resp. enrollment_state) exactly when the corresponding argument is supplied
\* and is not the empty string, with the argument as its value.
C10_ExactlyWhenNonEmpty ==
    \A r \in GetCoursesSent :
        LET a == calls[r.call].args
            p == ParamsOf(r) IN
        /\ GetCoursesPerPage(r)
        /\ HasKey(p, KeyEnrollmentType) <=>
              (Supplied(a.enrollmentType) /\ a.enrollmentType # Str(<<>>))
        /\ HasKey(p, KeyEnrollmentState) <=>
              (Supplied(a.enrollmentState) /\ a.enrollmentState # Str(<<>>))
        /\ HasKey(p, KeyEnrollmentType) => ValuesOf(p, KeyEnrollmentType) = {a.enrollmentType}
        /\ HasKey(p, KeyEnrollmentState) => ValuesOf(p, KeyEnrollmentState) = {a.enrollmentState}
        /\ Len(p) = Cardinality({k \in {KeyPerPage, KeyEnrollmentType, KeyEnrollmentState} :
                                    HasKey(p, k)})

\* getCourses('student', 'active') has been sent with all three parameters
C10_Witness ==
    \E r \in GetCoursesSent :
        /\ calls[r.call].args = CoursesArgs(Str(Student), Str(Active))
        /\ Len(ParamsOf(r)) = 3
        /\ ~ApiOf(r).useProxy
        /\ Includes(r.url, KeyEnrollmentType \o <<"=">> \o Student)

\* String.prototype.split on a one-character separator
SplitAt(s, c) ==
    LET cuts == {i \in DOMAIN s : s[i] = c}
        cut(k) == IF k = 0 THEN 0
                  ELSE IF k = Cardinality(cuts) + 1 THEN Len(s) + 1
                  ELSE CHOOSE i \in cuts : Cardinality({j \in cuts : j < i}) = k - 1
    IN [k \in 1..(Cardinality(cuts) + 1) |-> SubSeq(s, cut(k - 1) + 1, cut(k) - 1)]

Escaped == {"/", ":", "?", "=", "&", "%", ",", "+", " ", "!", "~", "'", "(", ")"}

\* what a receiver of the query reads back from one encoded name or value
FormDecode(s) ==
    ConcatAll([i \in 1..Len(s) |->
                  IF s[i] = "%" THEN <<CHOOSE c \in Escaped : EscapeOf(c) = SubSeq(s, i, i + 2)>>
                  ELSE IF (i > 1 /\ s[i - 1] = "%") \/ (i > 2 /\ s[i - 2] = "%") THEN <<>>
                  ELSE IF s[i] = "+" THEN <<" ">>
                  ELSE <<s[i]>>])

\* the (name, value) pairs a receiver reads back from a query string
QueryPairs(q) ==
    LET pieces == SplitAt(q, "&") IN
    [k \in 1..Len(pieces) |->
        LET kv == SplitAt(pieces[k], "=") IN
        IF Len(kv) = 2 THEN <<FormDecode(kv[1]), FormDecode(kv[2])>> ELSE <<>>]

\* what follows base + normalizedPath in the target URL of a request
QueryOf(r) == SubSeq(r.target, Len(ApiOf(r).apiUrl) + Len(r.path) + 1, Len(r.target))

\* the pairs read back from the URL of r, <<>> when no '?' follows the path
PairsOf(r) ==
    IF Len(QueryOf(r)) > 0 /\ QueryOf(r)[1] = "?" THEN QueryPairs(Tail(QueryOf(r))) ELSE <<>>

\* what C11 says short of the order: no '?' for an empty mapping, and otherwise
\* '?' and one pair per key, carrying the key and its stringified value
EveryKeyOnce(r) ==
    LET p == ParamsOf(r)
        pairs == PairsOf(r) IN
    IF Len(p) = 0 THEN QueryOf(r) = <<>> /\ ~Includes(r.target, <<"?">>)
    ELSE /\ Len(QueryOf(r)) > 1 /\ QueryOf(r)[1] = "?"
         /\ Len(pairs) = Len(p)
         /\ \A j \in DOMAIN p :
               /\ Cardinality({k \in DOMAIN pairs : pairs[k] # <<>> /\ pairs[k][1] = p[j].key}) = 1
               /\ \E k \in DOMAIN pairs : pairs[k] = <<p[j].key, StringOf(p[j].value)>>
               /\ p[j].value.tag = "array" =>
                     \E k \in DOMAIN pairs : pairs[k] = <<p[j].key,
                                                         Join([n \in 1..Len(p[j].value.items) |->
                                                                  p[j].value.items[n].str],
                                                              <<",">>)>>

\* C11 as stated: for every non-empty parameter mapping the query string holds
\* every key exactly once, in the mapping's insertion order, each with its
\* stringified value (an array as one comma-joined value); an empty mapping
\* appends no query string and no '?'.
C11_InsertionOrder ==
    \A r \in Sent :
        /\ EveryKeyOnce(r)
        /\ \A j \in DOMAIN ParamsOf(r) :
              j \in DOMAIN PairsOf(r) /\ PairsOf(r)[j][1] = ParamsOf(r)[j].key

\* the position at which key k was inserted into the mapping
InsertedAt(params, k) == CHOOSE j \in DOMAIN params : params[j].key = k

\* C11 amended: for every non-empty parameter mapping the query string holds
\* every key exactly once, each with its stringified value (an array as one
\* comma-joined value), the keys that are array indices (decimal integers up
\* to 2^32 - 2, written without leading zeros) first in ascending numeric
\* order and the other keys after them in insertion order; an empty mapping
\* appends no query string and no '?'.
C11_IndicesThenInsertionOrder ==
    \A r \in Sent :
        /\ EveryKeyOnce(r)
        /\ \A a, b \in DOMAIN PairsOf(r) :
              a < b =>
                LET ka == PairsOf(r)[a][1]
                    kb == PairsOf(r)[b][1] IN
                IF IsArrayIndex(kb) THEN IsArrayIndex(ka) /\ IndexLess(ka, kb)
                ELSE IsArrayIndex(ka) \/ InsertedAt(ParamsOf(r), ka) < InsertedAt(ParamsOf(r), kb)

\* a request whose mapping got q (an array), then 10, then 2, sent with the
\* query 2=undefined&10=1&q=a%2Cb
C11_Witness ==
    \E r \in Sent :
        /\ Len(ParamsOf(r)) = 3
        /\ ParamsOf(r)[1] = Param(<<"q">>, Arr(<<Str(<<"a">>), Str(<<"b">>)>>))
        /\ QueryOf(r) = <<"?", "2", "=", "u", "n", "d", "e", "f", "i", "n", "e", "d", "&",
                          "1", "0", "=", "1", "&", "q", "=", "a", "%", "2", "C", "b">>
        /\ PairsOf(r) = <<<<<<"2">>, StringOf(Undef)>>, <<<<"1", "0">>, <<"1">>>>,
                          <<<<"q">>, <<"a", ",", "b">>>>>>

(***************************************************************************)
(* Claims about client instances, checked under SpecConfig.                *)
(***************************************************************************)
\* C5: the base URL, token, proxy flag and proxy URL used by a request are those
\* of the client instance it was invoked on, as fixed at that instance's
\* construction, whatever the settings have become and whichever client the
\* plugin holds now.
C5_RequestUsesItsClient ==
    \A r \in Sent :
        LET c == calls[r.call]
            api == clients[c.client] IN
        /\ api = CanvasAPI(ctorArgs[c.client])
        /\ r.url = RequestUrl(api, c.rq.endpoint, c.rq.params)
        /\ r.headers.Authorization = Bearer \o api.accessToken

\* a request is pending on a client that the plugin has since replaced by one
\* of another configuration
C5_Witness ==
    \E r \in Sent :
        LET c == calls[r.call] IN
        /\ c.outcome.state = "pending"
        /\ c.client # canvasApi
        /\ pendingSaves = 0
        /\ clients[c.client].apiUrl # clients[canvasApi].apiUrl
        /\ clients[c.client].accessToken # clients[canvasApi].accessToken
        /\ r.url # RequestUrl(clients[canvasApi], c.rq.endpoint, c.rq.params)

\* C9: constructing a client from a base URL that ends in '/' removes exactly
\* one trailing slash (a URL ending in '//' keeps one); a base URL with no
\* trailing slash is stored unchanged.
C9_OneTrailingSlash ==
    \A i \in DOMAIN clients :
        LET u == ctorArgs[i].canvasApiUrl
            a == clients[i].apiUrl IN
        IF Len(u) > 0 /\ u[Len(u)] = "/" THEN a \o <<"/">> = u ELSE a = u

\* one client was constructed from a URL ending in '//' and kept one slash,
\* another from a URL ending in a single '/'
C9_Witness ==
    /\ \E i \in DOMAIN clients :
          ctorArgs[i].canvasApiUrl = UrlSlashSlash /\ clients[i].apiUrl = UrlSlash
    /\ \E i \in DOMAIN clients :
          ctorArgs[i].canvasApiUrl = UrlSlash /\ clients[i].apiUrl = UrlPlain

\* no saveSettings call is suspended: every call that was started has ended,
\* by returning or by throwing what saveData rejected with
AllSavesCompleted == pendingSaves = 0

\* the client holds the values of s (the base URL less its one trailing slash)
HoldsValuesOf(api, s) ==
    /\ api.accessToken = s.canvasApiToken
    /\ api.useProxy = s.useProxy
    /\ api.corsProxyUrl = s.corsProxyUrl
    /\ IF Len(s.canvasApiUrl) > 0 /\ s.canvasApiUrl[Len(s.canvasApiUrl)] = "/"
       THEN api.apiUrl \o <<"/">> = s.canvasApiUrl
       ELSE api.apiUrl = s.canvasApiUrl

\* the request this step hands to requestUrl is built from the settings s
BeginsRequestFrom(s) ==
    LET c == calls'[Len(calls')]
        r == network'[Len(network')] IN
    /\ r.call = Len(calls')
    /\ r.url = RequestUrl(CanvasAPI(s), c.rq.endpoint, c.rq.params)
    /\ r.headers.Authorization = Bearer \o s.canvasApiToken

\* C13: under any interleaving of setting edits and overlapping saveSettings
\* calls, once every started saveSettings call has completed the plugin's
\* current client holds exactly the current settings values, and a request
\* begun after that point uses the current base URL, token and proxy settings.
\* The code breaks it: a call whose saveData rejects ends before it constructs
\* the client, the edit stays in the settings and the old client stays current.
C13_CurrentAfterSaves ==
    /\ [](AllSavesCompleted => HoldsValuesOf(clients[canvasApi], settings))
    /\ [][(AllSavesCompleted /\ Len(calls') > Len(calls)) => BeginsRequestFrom(settings)]_vars

(***************************************************************************)
(* Claims about fetchCanvasData, checked under SpecFetch.                  *)
(***************************************************************************)
\* the invocations of fetchCanvasData
DataFetches == {f \in DOMAIN fetches : fetches[f].command = "fetchCanvasData"}

\* the texts invocation f has put into the note
InsertionsOf(f) == {k \in DOMAIN note : note[k][1] = f}

\* the list of courses the first call of an invocation returned, <<>> when it
\* returned none (or has not returned)
ReturnedCourses(p) ==
    LET first == calls[p.issued[1]] IN
    IF /\ first.outcome.state = "resolved"
       /\ Decoded(first.outcome.value).tag = "array"
       /\ HasItems(Decoded(first.outcome.value))
    THEN Decoded(first.outcome.value).items
    ELSE <<>>

\* C14: fetchCanvasData issues its requests strictly one after another (one
\* getCourses call, then one getCourseAssignments call per returned course in
\* list order, each started only after the previous one resolved), and inserts
\* text into the note at most once and only after every one of those requests
\* has succeeded: if any request fails, no later request is issued and nothing
\* is inserted.
C14_SequentialThenInsertOnce ==
    /\ \A i \in DOMAIN calls :
          /\ Cardinality({f \in DOMAIN fetches :
                             \E k \in DOMAIN fetches[f].issued : fetches[f].issued[k] = i}) = 1
          /\ Cardinality(RequestsOf(i)) = 1
    /\ \A f \in DataFetches :
          LET p == fetches[f]
              n == Len(p.issued)
              courses == ReturnedCourses(p) IN
          /\ n >= 1 /\ n <= 1 + Len(courses)
          /\ calls[p.issued[1]].op = "getCourses"
          /\ calls[p.issued[1]].args = CoursesArgs(Str(Student), Str(Active))
          /\ \A k \in 2..n :
                /\ p.issued[k - 1] < p.issued[k]
                /\ calls[p.issued[k]].op = "getCourseAssignments"
                /\ calls[p.issued[k]].args = CourseArgs(Get(courses[k - 1], Key("id")))
          /\ \A k \in 1..(n - 1) : calls[p.issued[k]].outcome.state = "resolved"
          /\ Cardinality(InsertionsOf(f)) <= 1
          /\ InsertionsOf(f) # {} =>
                /\ p.insertIntoNote
                /\ n = 1 + Len(courses)
                /\ \A k \in 1..n : calls[p.issued[k]].outcome.state = "resolved"
          /\ (\E k \in 1..n : calls[p.issued[k]].outcome.state = "rejected") =>
                /\ calls[p.issued[n]].outcome.state = "rejected"
                /\ InsertionsOf(f) = {}
                /\ p.pc # "returned"

\* an invocation got two courses, made its three calls in the order of the list
\* and, all three resolved, put its text into the note once, while another
\* command made its call between those calls and put its own text into the note
C14_Witness ==
    \E f \in DataFetches :
        LET p == fetches[f] IN
        /\ p.pc = "returned"
        /\ Len(p.issued) = 3
        /\ calls[p.issued[2]].args.courseId = Num(7)
        /\ calls[p.issued[3]].args.courseId = Num(9)
        /\ \A k \in 1..3 : calls[p.issued[k]].outcome.state = "resolved"
        /\ Cardinality(InsertionsOf(f)) = 1
        /\ \A k \in InsertionsOf(f) : Len(note[k][2]) > 3
        /\ \E g \in DOMAIN fetches :
              /\ g # f
              /\ p.issued[1] < fetches[g].issued[1]
              /\ fetches[g].issued[1] < p.issued[3]
              /\ InsertionsOf(g) # {}

====
